---- MODULE Spec2Model ----
(***************************************************************************)
(* Scrappit: the background task scheduler (ScrappitScheduler, a Thread    *)
(* owning a PriorityQueue of ScrappitTask and a Queue of ScrappitResult)   *)
(* and the rate-limited client (RedditAPI.get) its worker drives.          *)
(*                                                                         *)
(* Threads: one worker (run), several caller threads (put_task,            *)
(* get_result), and the owner calling start() and stop().                  *)
(*                                                                         *)
(* Time is kept relative to the client's reset_time: reset_in stands for   *)
(* reset_time - time(), saturated at -1 ("time() > reset_time"); the code  *)
(* reads the clock only to compare it with reset_time and to subtract it   *)
(* from reset_time.  A sleep(d) lets exactly d units pass when it ends;    *)
(* Tick lets further time pass, in the amounts the environment allows.     *)
(***************************************************************************)
EXTENDS Integers, Sequences, FiniteSets, TLC

VARIABLES
    task_queue,         \* PriorityQueue.queue: the heap list of queued tasks
    unfinished_tasks,   \* PriorityQueue.unfinished_tasks
    task_id,            \* ScrappitScheduler.task_id, the next id
    result_queue,       \* Queue of ScrappitResult
    running,            \* the Event ScrappitScheduler.running
    wpc,                \* position of the worker thread
    cur,                \* the task the worker holds
    tries,              \* iterations of the client's retry loop already used
    requests_remaining, \* RedditAPI.requests_remaining
    reset_in,           \* RedditAPI.reset_time - time(), saturated at -1
    ua,                 \* session.headers["User-Agent"]
    sleep_left,         \* time left of the worker's current sleep()
    cpc,                \* position of each caller thread inside put_task
    ctask,              \* the task each caller is submitting
    cload,              \* the value each caller loaded for self.task_id += 1
    ccall,              \* the arguments of the submission method each caller is in
    nsub,               \* history: number of put_task calls entered
    raised,             \* history: tags of the tasks whose put_task raised
    deqLog,             \* history: tags of the tasks task_queue.get() returned, in order
    resultLog,          \* history: results the worker put, in order
    polled,             \* history: tags of the results get_result returned, in order
    nreq,               \* history: HTTP requests issued by the current client call
    lastStatus,         \* history: status of the response to the client's last request, 0 if none
    stopCalled,         \* history: stop() has been called
    afterStop,          \* history: results put since stop() returned (capped)
    prevUa,             \* history: the User-Agent of the previous attempt's request if it was answered 429
    quiet               \* history: time left of the wait a response with budget 0 asked for

vars == <<task_queue, unfinished_tasks, task_id, result_queue, running, wpc, cur,
          tries, requests_remaining, reset_in, ua, sleep_left, cpc, ctask, cload,
          ccall, nsub, raised, deqLog, resultLog, polled, nreq, lastStatus,
          stopCalled, afterStop, prevUa, quiet>>

schedVars  == <<task_queue, unfinished_tasks, task_id, result_queue, running>>
clientVars == <<requests_remaining, reset_in, ua, sleep_left>>
callerVars == <<cpc, ctask, cload, ccall, nsub, raised>>
histVars   == <<deqLog, resultLog, polled, nreq, lastStatus, stopCalled, afterStop,
               prevUa, quiet>>

\* ------------------------------------------------------------------ bounds
MaxTasks   == 2                 \* put_task calls in a behaviour of Spec
MaxFetches == 3                 \* put_task calls in a behaviour of ClientSpec
MaxSubmits == 1                 \* submission method calls in a behaviour of PrioSpec

\* ------------------------------------------------------- program constants
TIMEOUT   == 10
MAX_TRIES == 3

\* ------------------------------------------------------------ input domains
Callers      == {"c1", "c2"}
ApiMethods   == {"get", "listing"}          \* attributes RedditAPI has
StatusCodes  == {200, 204, 404, 429}
RemainingHdr == {9, 15}                     \* X-Ratelimit-Remaining, in tenths
ResetHdr     == {0, 11}                     \* X-Ratelimit-Reset, seconds
Bodies       == {"page", "notjson"}

NoTask == [tag |-> 0, name |-> "none", priority |-> 0, task_id |-> 0]

\* ----------------------------------------- arguments of the submission methods
\* Priorities are held in twelfths, so that the divisions by 2, 3 and 4 of the
\* default priorities are exact.
PriorityUnit == 12

\* what X.value.priority may be for an enum member X of the scrappit api
Weights == {1 * PriorityUnit, 3 * PriorityUnit}

\* members of RedditAPISubredditSort, RedditAPIUserSort, RedditAPICommentsSort,
\* RedditAPIT and RedditAPIUserWhere
SubredditSorts == {"HOT", "TOP", "CONTROVERSIAL"}
UserSorts      == {"NEW", "TOP", "CONTROVERSIAL"}
CommentsSorts  == {"CONFIDENCE"}
TimeWindows    == {"DAY", "ALL"}
UserWheres     == {"OVERVIEW"}

\* an enum member with the priority its value carries
EnumArg(members) == [member : members, priority : Weights]
NoArg == [member |-> "none", priority |-> 0]

\* the priority argument: <<>> is None, <<p>> is the number p
PriorityArgs == {<<>>, <<0>>, <<30>>}

\* A call of a submission method: the method, the priority of its
\* RedditAPITask member (base), its enum arguments and its priority argument.
BaseOnlyCalls ==
    [method : {"get", "listing", "r_about", "user_about"}, base : Weights,
     where : {NoArg}, sort : {NoArg}, t : {NoArg}, priority : PriorityArgs]
RCalls ==
    [method : {"r"}, base : Weights, where : {NoArg}, sort : EnumArg(SubredditSorts),
     t : EnumArg(TimeWindows), priority : PriorityArgs]
UserCalls ==
    [method : {"user"}, base : Weights, where : EnumArg(UserWheres),
     sort : EnumArg(UserSorts), t : EnumArg(TimeWindows), priority : PriorityArgs]
CommentsCalls ==
    [method : {"comments", "api_morechildren"}, base : Weights, where : {NoArg},
     sort : EnumArg(CommentsSorts), t : {NoArg}, priority : PriorityArgs]

\* no submission method is being executed
NoCall == [method |-> "none"]

Responses == [status : StatusCodes, remaining : RemainingHdr, reset : ResetHdr,
              body : Bodies]

Resp(st, rem, rst, b) == [status |-> st, remaining |-> rem, reset |-> rst, body |-> b]

\* An environment: which threads submit, how many tasks and which, what the server
\* answers, what user_agent.random may return, and by how much time may pass
\* between two steps.
SchedEnv ==
    [callers   |-> Callers,
     tasks     |-> MaxTasks,
     names     |-> {"get", "nosuch"},
     prios     |-> {0, 1},
     agents    |-> {"ua1"},
     responses |-> {Resp(200, 15, 0, "page"), Resp(404, 15, 0, "notjson"),
                    Resp(429, 0, 11, "notjson")},
     ticks     |-> {12}]

ClientEnv ==
    [callers   |-> {"c1"},
     tasks     |-> MaxFetches,
     names     |-> {"listing"},
     prios     |-> {0},
     agents    |-> {"ua1", "ua2"},
     responses |-> Responses,
     ticks     |-> {6, 12}]

\* Callers of the submission methods, with every argument combination.
PrioEnv ==
    [callers |-> {"c1"},
     tasks   |-> MaxSubmits,
     agents  |-> {"ua1"},
     calls   |-> BaseOnlyCalls \cup RCalls \cup UserCalls \cup CommentsCalls]

Max(a, b) == IF a >= b THEN a ELSE b

\* ------------------------------------------------- ScrappitTask comparison
\* ScrappitTask is declared @dataclass without order=True, so it defines no
\* __lt__: a < b between two tasks raises TypeError, whatever their fields.
TaskLt(a, b) == "TypeError"

\* ------------------------------------------- PriorityQueue (heapq) on a list
\* Positions are 0-based as in heapq; At reads list[i], Swap exchanges two cells.
At(h, i) == h[i + 1]
Swap(h, i, j) == [h EXCEPT ![i + 1] = h[j + 1], ![j + 1] = h[i + 1]]

\* heapq siftdown: move list[pos] up towards startpos while it is smaller than
\* its parent.  The result is the list and whether every comparison succeeded;
\* a comparison that raises leaves the list as it was at that moment.
RECURSIVE SiftDown(_, _, _)
SiftDown(h, startpos, pos) ==
    IF pos > startpos
    THEN LET parentpos == (pos - 1) \div 2
             c == TaskLt(At(h, pos), At(h, parentpos))
         IN  IF c = "TypeError" THEN [heap |-> h, ok |-> FALSE]
             ELSE IF c = "true" THEN SiftDown(Swap(h, pos, parentpos), startpos, parentpos)
             ELSE [heap |-> h, ok |-> TRUE]
    ELSE [heap |-> h, ok |-> TRUE]

\* heapq siftup: bubble the smaller child up until a leaf, then siftdown.
RECURSIVE SiftUpFrom(_, _, _)
SiftUpFrom(h, startpos, pos) ==
    LET endpos == Len(h)
        limit  == endpos \div 2
        left   == 2 * pos + 1
    IN  IF pos < limit
        THEN IF left + 1 < endpos
             THEN LET c == TaskLt(At(h, left), At(h, left + 1))
                  IN  IF c = "TypeError" THEN [heap |-> h, ok |-> FALSE]
                      ELSE LET childpos == IF c = "true" THEN left ELSE left + 1
                           IN  SiftUpFrom(Swap(h, childpos, pos), startpos, childpos)
             ELSE SiftUpFrom(Swap(h, left, pos), startpos, left)
        ELSE SiftDown(h, startpos, pos)

\* heapq.heappush: append, then siftdown from the last position.
HeapPush(h, item) ==
    LET h1 == Append(h, item) IN SiftDown(h1, 0, Len(h1) - 1)

\* heapq.heappop: take the last cell off; if cells remain, the first cell is
\* the item to return, the last cell takes its place and is sifted.  When the
\* sift raises, nothing is returned and the former first cell is gone.
HeapPop(h) ==
    LET n       == Len(h)
        lastelt == h[n]
        rest    == SubSeq(h, 1, n - 1)
    IN  IF n = 1
        THEN [heap |-> rest, ok |-> TRUE, item |-> lastelt]
        ELSE LET r == SiftUpFrom([rest EXCEPT ![1] = lastelt], 0, 0)
             IN  [heap |-> r.heap, ok |-> r.ok,
                  item |-> IF r.ok THEN h[1] ELSE NoTask]

\* ------------------------------------------------------- response handling
\* int(float(header)): the header is held in tenths, truncated to an integer.
ParseRemaining(tenths) == tenths \div 10

\* Response.raise_for_status raises HTTPError for 4xx and 5xx only.
RaisesForStatus(status) == status >= 400 /\ status < 600

\* the test of api.py line 71, which guards the raise_for_status call
NotHandled(status) == status \notin {200, 429}

\* A budget test that also takes the branch at the very instant of the reset.
PastResetOrAt(rin) == rin <= 0

\* if now > self.reset_time, on reset_in = reset_time - now
PastReset(rin) == rin < 0

\* A budget test that never finds the budget spent.
BudgetNeverSpent(rem) == rem < 0

\* elif not self.requests_remaining
BudgetSpent(rem) == rem = 0

\* A back-off that waits for the reset only, however soon it is.
BackoffSleepResetOnly(rin) == rin

\* max(self.TIMEOUT, self.reset_time - now), the argument of the sleep after a 429
BackoffSleep(rin) == Max(TIMEOUT, rin)

\* A retry loop that runs one iteration too many.
LoopOverOffByOne(t) == t > MAX_TRIES

\* for _ in range(self.MAX_TRIES): the loop is over after MAX_TRIES iterations
LoopOver(t) == t >= MAX_TRIES

\* response.json(): the decoded payload, or a decoding error
JsonOf(body) == IF body = "notjson"
                THEN [kind |-> "JSONDecodeError", value |-> "none"]
                ELSE [kind |-> "json", value |-> body]

Result(task, kind, value) == [task |-> task, kind |-> kind, value |-> value]

\* -------------------------------------------------------------------- Init
InitOver(env) ==
    /\ task_queue = <<>>
    /\ unfinished_tasks = 0
    /\ task_id = 0
    /\ result_queue = <<>>
    /\ running = FALSE
    /\ wpc = "new"
    /\ cur = NoTask
    /\ tries = 0
    /\ requests_remaining = 1
    /\ reset_in = -1
    /\ ua \in env.agents
    /\ sleep_left = 0
    /\ cpc = [c \in Callers |-> "idle"]
    /\ ctask = [c \in Callers |-> NoTask]
    /\ cload = [c \in Callers |-> 0]
    /\ ccall = [c \in Callers |-> NoCall]
    /\ nsub = 0
    /\ raised = {}
    /\ deqLog = <<>>
    /\ resultLog = <<>>
    /\ polled = <<>>
    /\ nreq = 0
    /\ lastStatus = 0
    /\ stopCalled = FALSE
    /\ afterStop = 0
    /\ prevUa = "none"
    /\ quiet = 0

Init == InitOver(SchedEnv)
\* ------------------------------------------------------------ caller threads
\* A caller builds a ScrappitTask and calls put_task with it:
\* task.task_id = self.task_id
PutAssign(c, env) ==
    /\ cpc[c] = "idle"
    /\ nsub < env.tasks
    /\ \E n \in env.names, p \in env.prios :
          ctask' = [ctask EXCEPT ![c] =
                      [tag |-> nsub + 1, name |-> n, priority |-> p, task_id |-> task_id]]
    /\ nsub' = nsub + 1
    /\ cpc' = [cpc EXCEPT ![c] = "load"]
    /\ UNCHANGED <<schedVars, wpc, cur, tries, clientVars, cload, ccall, raised, histVars>>

\* self.task_id += 1, the read of self.task_id
PutLoad(c) ==
    /\ cpc[c] = "load"
    /\ cload' = [cload EXCEPT ![c] = task_id]
    /\ cpc' = [cpc EXCEPT ![c] = "store"]
    /\ UNCHANGED <<schedVars, wpc, cur, tries, clientVars, ctask, ccall, nsub, raised,
                   histVars>>

\* self.task_id += 1, the write of self.task_id
PutStore(c) ==
    /\ cpc[c] = "store"
    /\ task_id' = cload[c] + 1
    /\ cload' = [cload EXCEPT ![c] = 0]
    /\ cpc' = [cpc EXCEPT ![c] = "put"]
    /\ UNCHANGED <<task_queue, unfinished_tasks, result_queue, running, wpc, cur, tries,
                   clientVars, ctask, ccall, nsub, raised, histVars>>

\* self.task_queue.put(task); return task.  PriorityQueue.put holds the queue's
\* mutex: heappush, then unfinished_tasks += 1 unless heappush raised.
PutQueue(c) ==
    /\ cpc[c] = "put"
    /\ LET r == HeapPush(task_queue, ctask[c])
       IN  /\ task_queue' = r.heap
           /\ unfinished_tasks' = IF r.ok THEN unfinished_tasks + 1 ELSE unfinished_tasks
           /\ raised' = IF r.ok THEN raised ELSE raised \cup {ctask[c].tag}
    /\ cpc' = [cpc EXCEPT ![c] = "idle"]
    /\ ctask' = [ctask EXCEPT ![c] = NoTask]
    /\ ccall' = [ccall EXCEPT ![c] = NoCall]
    /\ UNCHANGED <<task_id, result_queue, running, wpc, cur, tries, clientVars, cload,
                   nsub, histVars>>

\* ------------------------------------------------------ submission methods
\* A test of the priority argument by truth value: 0 counts as omitted.
OmittedOrZero(priority) == priority = <<>> \/ priority = <<0>>

\* if priority is None
Omitted(priority) == priority = <<>>

\* A test that takes the time window into account for TOP only.
TimeDependentTopOnly(sort) == sort.member = "TOP"

\* if sort in (X.TOP, X.CONTROVERSIAL)
TimeDependent(sort) == sort.member \in {"TOP", "CONTROVERSIAL"}

\* get, listing, r_about, user_about: the priority of the RedditAPITask member
BasePriority(call) ==
    IF Omitted(call.priority) THEN call.base ELSE call.priority[1]

\* r
RPriority(call) ==
    IF Omitted(call.priority)
    THEN LET priority == call.base + call.sort.priority
         IN  IF TimeDependent(call.sort)
             THEN (priority + call.t.priority) \div 3
             ELSE priority \div 2
    ELSE call.priority[1]

\* user
UserPriority(call) ==
    IF Omitted(call.priority)
    THEN LET priority == call.base + call.where.priority + call.sort.priority
         IN  IF TimeDependent(call.sort)
             THEN (priority + call.t.priority) \div 4
             ELSE priority \div 3
    ELSE call.priority[1]

\* comments, api_morechildren
CommentsPriority(call) ==
    IF Omitted(call.priority)
    THEN (call.base + call.sort.priority) \div 2
    ELSE call.priority[1]

\* the priority the called method gives the ScrappitTask it builds
TaskPriority(call) ==
    CASE call.method = "r" -> RPriority(call)
      [] call.method = "user" -> UserPriority(call)
      [] call.method \in {"comments", "api_morechildren"} -> CommentsPriority(call)
      [] OTHER -> BasePriority(call)

\* A submission method: it builds the ScrappitTask, with the explicit or the
\* default priority, and enters put_task with it (task.task_id = self.task_id).
SubmitCall(c, env) ==
    /\ cpc[c] = "idle"
    /\ nsub < env.tasks
    /\ \E call \in env.calls :
          /\ ccall' = [ccall EXCEPT ![c] = call]
          /\ ctask' = [ctask EXCEPT ![c] =
                        [tag |-> nsub + 1, name |-> call.method,
                         priority |-> TaskPriority(call), task_id |-> task_id]]
    /\ nsub' = nsub + 1
    /\ cpc' = [cpc EXCEPT ![c] = "load"]
    /\ UNCHANGED <<schedVars, wpc, cur, tries, clientVars, cload, raised, histVars>>

\* A get_result that takes the newest pending result instead of the oldest.
GetResultNewest(c) ==
    /\ cpc[c] = "idle"
    /\ IF result_queue = <<>>
       THEN UNCHANGED <<result_queue, polled>>
       ELSE /\ result_queue' = SubSeq(result_queue, 1, Len(result_queue) - 1)
            /\ polled' = Append(polled, result_queue[Len(result_queue)].task.tag)
    /\ UNCHANGED <<task_queue, unfinished_tasks, task_id, running, wpc, cur, tries,
                   clientVars, callerVars, deqLog, resultLog, nreq, lastStatus,
                   stopCalled, afterStop, prevUa, quiet>>

\* A get_result that returns the oldest pending result and leaves it queued.
GetResultPeek(c) ==
    /\ cpc[c] = "idle"
    /\ IF result_queue = <<>>
       THEN UNCHANGED <<result_queue, polled>>
       ELSE /\ UNCHANGED result_queue
            /\ Len(polled) < Len(resultLog) + 1
            /\ polled' = Append(polled, Head(result_queue).task.tag)
    /\ UNCHANGED <<task_queue, unfinished_tasks, task_id, running, wpc, cur, tries,
                   clientVars, callerVars, deqLog, resultLog, nreq, lastStatus,
                   stopCalled, afterStop, prevUa, quiet>>

\* get_result: result_queue.get_nowait() and task_done(), or None on Empty.
GetResult(c) ==
    /\ cpc[c] = "idle"
    /\ IF result_queue = <<>>
       THEN UNCHANGED <<result_queue, polled>>
       ELSE /\ result_queue' = Tail(result_queue)
            /\ polled' = Append(polled, Head(result_queue).task.tag)
    /\ UNCHANGED <<task_queue, unfinished_tasks, task_id, running, wpc, cur, tries,
                   clientVars, callerVars, deqLog, resultLog, nreq, lastStatus,
                   stopCalled, afterStop, prevUa, quiet>>

\* ---------------------------------------------------------------- the owner
\* Thread.start(): the worker thread exists and will execute run().
Start ==
    /\ wpc = "new"
    /\ wpc' = "started"
    /\ UNCHANGED <<schedVars, cur, tries, clientVars, callerVars, histVars>>

\* stop(): self.running.clear()
Stop ==
    /\ wpc # "new"
    /\ ~stopCalled
    /\ running' = FALSE
    /\ stopCalled' = TRUE
    /\ UNCHANGED <<task_queue, unfinished_tasks, task_id, result_queue, wpc, cur, tries,
                   clientVars, callerVars, deqLog, resultLog, polled, nreq, lastStatus,
                   afterStop, prevUa, quiet>>

\* --------------------------------------------------------------- the worker
\* A worker whose except clause drops RetryError instead of storing it.
DeliverUnlessRetryError(kind, value) ==
    /\ IF kind = "RetryError"
       THEN UNCHANGED <<result_queue, resultLog, afterStop>>
       ELSE /\ result_queue' = Append(result_queue, Result(cur, kind, value))
            /\ resultLog' = Append(resultLog, Result(cur, kind, value))
            /\ afterStop' = IF stopCalled THEN afterStop + 1 ELSE afterStop
    /\ wpc' = "task_done"

\* self.result_queue.put(ScrappitResult(task, value)) and on to task_done()
Deliver(kind, value) ==
    /\ result_queue' = Append(result_queue, Result(cur, kind, value))
    /\ resultLog' = Append(resultLog, Result(cur, kind, value))
    /\ afterStop' = IF stopCalled THEN afterStop + 1 ELSE afterStop
    /\ wpc' = "task_done"

\* run(): self.running.set()
RunSet ==
    /\ wpc = "started"
    /\ running' = TRUE
    /\ wpc' = "loop"
    /\ UNCHANGED <<task_queue, unfinished_tasks, task_id, result_queue, cur, tries,
                   clientVars, callerVars, histVars>>

\* while self.running.is_set():
LoopTest ==
    /\ wpc = "loop"
    /\ wpc' = IF running THEN "check" ELSE "exited"
    /\ UNCHANGED <<schedVars, cur, tries, clientVars, callerVars, histVars>>

\* if not self.task_queue.empty(): task = self.task_queue.get()  (else branch:
\* go to sleep).  get() is outside the try: what heappop raises leaves run().
Dequeue ==
    /\ wpc = "check"
    /\ IF task_queue = <<>>
       THEN /\ wpc' = "idle"
            /\ UNCHANGED <<task_queue, cur, deqLog>>
       ELSE LET r == HeapPop(task_queue)
            IN  /\ task_queue' = r.heap
                /\ IF r.ok
                   THEN /\ cur' = r.item
                        /\ deqLog' = Append(deqLog, r.item.tag)
                        /\ wpc' = "call"
                   ELSE /\ wpc' = "crashed"
                        /\ UNCHANGED <<cur, deqLog>>
    /\ UNCHANGED <<unfinished_tasks, task_id, result_queue, running, tries, clientVars,
                   callerVars, resultLog, polled, nreq, lastStatus, stopCalled, afterStop,
                   prevUa, quiet>>

\* sleep(self.IDLE_SLEEP)
IdleSleep ==
    /\ wpc = "idle"
    /\ wpc' = "loop"
    /\ UNCHANGED <<schedVars, cur, tries, clientVars, callerVars, histVars>>

\* getattr(self.api, task.name)(*task.args, **task.kwargs): an unknown name
\* raises AttributeError inside the try; a known one enters RedditAPI.get
\* (listing adds its parameters and calls get).
Call ==
    /\ wpc = "call"
    /\ IF cur.name \in ApiMethods
       THEN /\ wpc' = "attempt"
            /\ tries' = 0
            /\ nreq' = 0
            /\ UNCHANGED <<result_queue, resultLog, afterStop>>
       ELSE /\ Deliver("AttributeError", "none")
            /\ UNCHANGED <<tries, nreq>>
    /\ UNCHANGED <<task_queue, unfinished_tasks, task_id, running, cur, clientVars,
                   callerVars, deqLog, polled, lastStatus, stopCalled, prevUa, quiet>>
\* ------------------------------------------------- the client, RedditAPI.get
\* One iteration head of "for _ in range(self.MAX_TRIES)": the loop is over
\* (raise RetryError), or now = time() and the budget test of lines 59-64 up to
\* the sleep call (sleep_left is the argument of the sleep in progress).
Attempt ==
    /\ wpc = "attempt"
    /\ IF LoopOver(tries)
       THEN /\ Deliver("RetryError", "none")
            /\ UNCHANGED clientVars
       ELSE /\ UNCHANGED <<result_queue, resultLog, afterStop>>
            /\ IF PastReset(reset_in)
               THEN /\ requests_remaining' = 1
                    /\ wpc' = "http"
                    /\ UNCHANGED <<reset_in, ua, sleep_left>>
               ELSE IF BudgetSpent(requests_remaining)
               THEN /\ sleep_left' = reset_in
                    /\ wpc' = "rl_sleep"
                    /\ UNCHANGED <<requests_remaining, reset_in, ua>>
               ELSE /\ wpc' = "http"
                    /\ UNCHANGED clientVars
    /\ UNCHANGED <<task_queue, unfinished_tasks, task_id, running, cur, tries,
                   callerVars, deqLog, polled, nreq, lastStatus, stopCalled, prevUa,
                   quiet>>

\* sleep(self.reset_time - now) is over: rotate the User-Agent, budget := 1.
RateLimitWake(env) ==
    /\ wpc = "rl_sleep"
    /\ reset_in' = Max(-1, reset_in - sleep_left)
    /\ sleep_left' = 0
    /\ ua' \in env.agents
    /\ requests_remaining' = 1
    /\ wpc' = "http"
    /\ quiet' = Max(0, quiet - sleep_left)
    /\ UNCHANGED <<schedVars, cur, tries, callerVars, deqLog, resultLog, polled, nreq,
                   lastStatus, stopCalled, afterStop, prevUa>>

\* A transport timeout that does not use up an attempt.
HttpTimeoutFree ==
    /\ wpc = "http"
    /\ nreq' = nreq + 1
    /\ lastStatus' = 0
    /\ prevUa' = "none"
    /\ wpc' = "attempt"
    /\ UNCHANGED <<schedVars, cur, tries, clientVars, callerVars, deqLog, resultLog,
                   polled, stopCalled, afterStop, quiet>>

\* self.session.get(..., timeout=self.TIMEOUT) timed out: continue.
HttpTimeout ==
    /\ wpc = "http"
    /\ tries' = tries + 1
    /\ nreq' = nreq + 1
    /\ lastStatus' = 0
    /\ prevUa' = "none"
    /\ wpc' = "attempt"
    /\ UNCHANGED <<schedVars, cur, clientVars, callerVars, deqLog, resultLog, polled,
                   stopCalled, afterStop, quiet>>

\* A response arrived: lines 71-83.
HttpResponse(env) ==
    /\ wpc = "http"
    /\ \E r \in env.responses :
          /\ nreq' = nreq + 1
          /\ lastStatus' = r.status
          /\ prevUa' = IF r.status = 429 THEN ua ELSE "none"
          /\ quiet' = IF r.status \in {200, 429} /\ ParseRemaining(r.remaining) = 0
                       THEN Max(quiet, r.reset)
                       ELSE quiet
          /\ IF NotHandled(r.status) /\ RaisesForStatus(r.status)
             THEN /\ Deliver("HTTPError", "none")
                  /\ UNCHANGED <<tries, clientVars>>
             ELSE /\ requests_remaining' = ParseRemaining(r.remaining)
                  /\ reset_in' = r.reset
                  /\ UNCHANGED <<tries, ua>>
                  /\ IF r.status = 429
                     THEN /\ sleep_left' = BackoffSleep(r.reset)
                          /\ wpc' = "backoff"
                          /\ UNCHANGED <<result_queue, resultLog, afterStop>>
                     ELSE /\ Deliver(JsonOf(r.body).kind, JsonOf(r.body).value)
                          /\ UNCHANGED sleep_left
    /\ UNCHANGED <<task_queue, unfinished_tasks, task_id, running, cur, callerVars,
                   deqLog, polled, stopCalled>>

\* sleep(max(self.TIMEOUT, self.reset_time - now)) is over: rotate, continue.
BackoffWake(env) ==
    /\ wpc = "backoff"
    /\ reset_in' = Max(-1, reset_in - sleep_left)
    /\ sleep_left' = 0
    /\ ua' \in env.agents
    /\ tries' = tries + 1
    /\ wpc' = "attempt"
    /\ quiet' = Max(0, quiet - sleep_left)
    /\ UNCHANGED <<schedVars, cur, requests_remaining, callerVars, deqLog, resultLog,
                   polled, nreq, lastStatus, stopCalled, afterStop, prevUa>>

\* self.task_queue.task_done(), outside the try: ValueError when called more
\* often than put succeeded.  The client call's locals are gone by now.
TaskDone ==
    /\ wpc = "task_done"
    /\ IF unfinished_tasks - 1 < 0
       THEN /\ wpc' = "crashed"
            /\ UNCHANGED unfinished_tasks
       ELSE /\ wpc' = "loop"
            /\ unfinished_tasks' = unfinished_tasks - 1
    /\ cur' = NoTask
    /\ tries' = 0
    /\ nreq' = 0
    /\ lastStatus' = 0
    /\ prevUa' = "none"
    /\ UNCHANGED <<task_queue, task_id, result_queue, running, clientVars,
                   callerVars, deqLog, resultLog, polled, stopCalled, afterStop, quiet>>

\* Time passes, apart from the worker's sleeps.
Tick(env) ==
    /\ reset_in >= 0 \/ quiet > 0
    /\ \E d \in env.ticks :
          /\ reset_in' = Max(-1, reset_in - d)
          /\ quiet' = Max(0, quiet - d)
    /\ UNCHANGED <<schedVars, wpc, cur, tries, requests_remaining, ua, sleep_left,
                   callerVars, deqLog, resultLog, polled, nreq, lastStatus, stopCalled,
                   afterStop, prevUa>>

\* ------------------------------------------------------------ specification
Worker(env) ==
    \/ RunSet \/ LoopTest \/ Dequeue \/ IdleSleep \/ Call \/ Attempt
    \/ RateLimitWake(env) \/ HttpTimeout \/ HttpResponse(env)
    \/ BackoffWake(env) \/ TaskDone

Submit(env) ==
    \E c \in env.callers :
        PutAssign(c, env) \/ PutLoad(c) \/ PutStore(c) \/ PutQueue(c)

Poll == \E c \in Callers : GetResult(c)

NextOver(env) ==
    \/ Submit(env)
    \/ Poll
    \/ Start
    \/ Stop
    \/ Worker(env)
    \/ Tick(env)

\* The scheduler under two submitting and polling threads and a few server
\* answers.
Next == NextOver(SchedEnv)
Spec == Init /\ [][Next]_vars

\* The worker thread is scheduled; callers and the owner may stop acting at
\* any point.
FairSpec == Spec /\ WF_vars(Worker(SchedEnv))

\* The client under every server answer: one thread submits and polls, and
\* the owner never stops the scheduler.
ClientNext ==
    \/ Submit(ClientEnv)
    \/ Poll
    \/ Start
    \/ Worker(ClientEnv)
    \/ Tick(ClientEnv)

ClientSpec == InitOver(ClientEnv) /\ [][ClientNext]_vars

\* The same with the worker thread scheduled: run() keeps taking steps, and
\* every sleep and every request of the client comes to an end.
FairClientSpec == ClientSpec /\ WF_vars(Worker(ClientEnv))

\* The submission methods under every combination of their arguments: one
\* thread calls them, up to the insertion into the task queue.
PrioNext ==
    \E c \in PrioEnv.callers :
        SubmitCall(c, PrioEnv) \/ PutLoad(c) \/ PutStore(c) \/ PutQueue(c)

PrioSpec == InitOver(PrioEnv) /\ [][PrioNext]_vars
\* ==================================================================== claims
Last(q) == q[Len(q)]
Range(q) == {q[i] : i \in 1..Len(q)}
TagsOf(q) == [i \in 1..Len(q) |-> q[i].task.tag]
NoDuplicates(q) == \A i, j \in 1..Len(q) : i # j => q[i] # q[j]

\* the worker holds a dequeued task whose result it has not put yet
Executing == wpc \in {"call", "attempt", "rl_sleep", "http", "backoff"}
\* the step in which task_queue.get() returns a task to the worker
DequeueReturns == wpc = "check" /\ wpc' = "call"
\* the step in which the client receives a response (not a transport timeout)
ResponseArrives == wpc = "http" /\ nreq' = nreq + 1 /\ lastStatus' # 0
\* every task that carries an assigned id and is still held somewhere
HeldTasks ==
    {ctask[c] : c \in {d \in Callers : cpc[d] # "idle"}} \cup Range(task_queue)
    \cup (IF cur = NoTask THEN {} ELSE {cur}) \cup {r.task : r \in Range(resultLog)}

\* C1: whenever the worker dequeues a task, no task with a strictly lower
\* priority value is in the task queue at that moment.
C1_LowestPriorityFirst ==
    [][DequeueReturns =>
         \A i \in 1..Len(task_queue') : task_queue'[i].priority >= cur'.priority]_vars

\* C2: among tasks of equal priority that are queued together, the one with
\* the smaller task_id is dequeued first: no task left in the queue has the
\* priority of the dequeued task and a smaller task_id.
C2_FifoAmongEqualPriority ==
    [][DequeueReturns =>
         \A i \in 1..Len(task_queue') :
            task_queue'[i].priority = cur'.priority
               => ~(task_queue'[i].task_id < cur'.task_id)]_vars

\* C3: under every interleaving of put_task calls no two tasks share a
\* task_id, and when no put_task is in progress the next id equals the
\* number of submissions (the ids handed out are exactly 0..n-1).
C3_DistinctIds ==
    /\ \A t, u \in HeldTasks : t.tag # u.tag => t.task_id # u.task_id
    /\ (\A c \in Callers : cpc[c] = "idle") => task_id = nsub

\* C4: every task the worker dequeues produces exactly one Result, which
\* references that task and carries either a payload or an error; no task is
\* dequeued twice.  While a task is executing its Result is the only one
\* missing; otherwise the Results put, in order, are those of the tasks
\* dequeued, in order.
C4_OneResultPerDequeuedTask ==
    /\ NoDuplicates(deqLog)
    /\ TagsOf(resultLog) =
          (IF Executing THEN SubSeq(deqLog, 1, Len(deqLog) - 1) ELSE deqLog)
    /\ Executing => cur.tag = Last(deqLog)
    /\ \A r \in Range(resultLog) : (r.kind = "json") # (r.value = "none")

\* C4 witness: two tasks were dequeued and have their Results, one a payload
\* and one an error.
C4_Witness ==
    /\ Len(deqLog) >= 2
    /\ ~Executing
    /\ \E r \in Range(resultLog) : r.kind = "json"
    /\ \E r \in Range(resultLog) : r.kind = "RetryError"

\* C5: a failure while dequeuing or dispatching a task never terminates the
\* worker loop: no exception leaves run().
C5_WorkerSurvives == wpc # "crashed"

\* C6: a client call issues at most MAX_TRIES requests; when each of the
\* MAX_TRIES attempts ended in a 429 or a timeout the call fails with
\* RetryError after exactly MAX_TRIES requests, and the worker stores that
\* error in the task's Result.
C6_RetryExhausted ==
    /\ nreq <= MAX_TRIES
    /\ tries <= MAX_TRIES
    /\ (wpc = "task_done" /\ tries = MAX_TRIES)
          => /\ Last(resultLog) = Result(cur, "RetryError", "none")
             /\ nreq = MAX_TRIES
    /\ (wpc = "task_done" /\ resultLog # <<>> /\ Last(resultLog).kind = "RetryError")
          => tries = MAX_TRIES /\ nreq = MAX_TRIES

\* C6 witness: a call has just failed with RetryError after three requests.
C6_Witness ==
    /\ wpc = "task_done"
    /\ nreq = MAX_TRIES
    /\ Last(resultLog).kind = "RetryError"

\* C7: for every status other than 200 and 429 the call fails on that attempt
\* with an HTTP error, and remaining-budget and reset-time are not updated
\* from that response.
C7_OtherStatusFails ==
    [][(ResponseArrives /\ lastStatus' \notin {200, 429}) =>
         /\ wpc' = "task_done"
         /\ Last(resultLog') = Result(cur, "HTTPError", "none")
         /\ requests_remaining' = requests_remaining
         /\ reset_in' = reset_in]_vars

\* C8: at most one further task completes after stop() has returned.
C8_AtMostOneAfterStop == afterStop <= 1

\* C9: after stop() the worker eventually leaves its loop.
C9_StopTerminates == stopCalled ~> (wpc \in {"exited", "crashed"})

\* C10: put_task and get_result never wait for the worker and put_task
\* inserts the task and returns: a caller at the queue insertion can take
\* it, an idle caller can poll, and no put_task has raised.
C10_CallersNeverBlock ==
    /\ \A c \in Callers : cpc[c] = "put" => ENABLED PutQueue(c)
    /\ \A c \in Callers : cpc[c] = "idle" => ENABLED GetResult(c)
    /\ raised = {}

\* C11: get_result returns None exactly when the result queue is empty (a
\* poll changes nothing exactly then), and otherwise removes and returns the
\* oldest pending Result: the Results polled so far, followed by those still
\* pending, are the Results in the order in which the worker put them.
C11_PollInCompletionOrder ==
    /\ polled \o TagsOf(result_queue) = TagsOf(resultLog)
    /\ (result_queue = <<>>) <=> ~ENABLED <<Poll>>_vars

\* C11 witness: two Results were polled while a third one is pending.
C11_Witness ==
    /\ Len(polled) >= 2
    /\ result_queue # <<>>

\* C12: under every interleaving of the callers' get_result calls and the
\* worker, each Result the worker put is returned by at most one get_result
\* call and none is lost: it is pending until a get_result returns it.
C12_EachResultPolledOnce ==
    /\ NoDuplicates(polled)
    /\ Range(polled) \cap Range(TagsOf(result_queue)) = {}
    /\ Range(polled) \cup Range(TagsOf(result_queue)) = Range(TagsOf(resultLog))
    /\ Len(polled) + Len(result_queue) = Len(resultLog)

\* C12 witness: the worker is executing a task while one Result has been
\* polled and another is pending, so that polls interleave with the worker.
C12_Witness ==
    /\ Executing
    /\ polled # <<>>
    /\ result_queue # <<>>

\* the step in which a 200 answers the attempt that follows a 429
OkAfter429 == wpc = "http" /\ lastStatus = 429 /\ lastStatus' = 200

\* C13: when an attempt received a 429 and the next attempt receives a 200,
\* the call returns on that attempt and the task's Result carries what
\* decoding the 200's body gives, and the User-Agent sent with the second
\* request differs from the one sent with the first.
C13_OkAfter429NewIdentity ==
    [][OkAfter429 =>
         /\ wpc' = "task_done"
         /\ Last(resultLog').task = cur
         /\ Last(resultLog').kind \in {"json", "JSONDecodeError"}
         /\ ua # prevUa]_vars

\* the step that starts an attempt of the retry loop (the loop is not over)
AttemptStarts == wpc = "attempt" /\ ~LoopOver(tries) /\ wpc' # "attempt"

\* C14: an attempt that starts with remaining-budget 0 and the time not past
\* reset-time sleeps for exactly reset-time - now, which is not negative,
\* before its request, and the identity is assigned anew only when that sleep
\* is over; an attempt that starts past reset-time neither sleeps nor touches
\* the identity and goes straight to its request.
C14_SleepsUntilReset ==
    [][/\ (AttemptStarts /\ requests_remaining = 0 /\ reset_in >= 0)
            => /\ wpc' = "rl_sleep"
               /\ sleep_left' = reset_in
               /\ sleep_left' >= 0
               /\ ua' = ua
               /\ nreq' = nreq
       /\ (wpc = "rl_sleep" /\ wpc' # "rl_sleep")
            => /\ wpc' = "http"
               /\ reset_in' = Max(-1, reset_in - sleep_left)
               /\ requests_remaining' = 1
       /\ (AttemptStarts /\ reset_in < 0)
            => /\ wpc' = "http"
               /\ sleep_left' = 0
               /\ ua' = ua
               /\ reset_in' = reset_in]_vars

\* C14 witness: the client is in a rate-limit sleep of positive length.
C14_Witness == wpc = "rl_sleep" /\ sleep_left > 0

\* C15: once a 200 or 429 response has reported remaining-budget 0 with s
\* seconds until the reset, no HTTP request of the same or of a later fetch is
\* issued earlier than s seconds after that response was processed: whenever
\* a request is in flight, every such wait has elapsed.
C15_HonoursReportedReset == wpc = "http" => quiet = 0

\* C15 witness: a later fetch is sleeping because the response to an earlier
\* one reported remaining-budget 0 and a reset that is still ahead.
C15_Witness ==
    /\ wpc = "rl_sleep"
    /\ quiet > 0
    /\ nreq = 0
    /\ resultLog # <<>>

\* the step in which the client's sleep after a 429 ends
BackoffEnds == wpc = "backoff" /\ wpc' # "backoff"

\* C18: a 429 stores that response's budget and reset-time and puts the
\* client to sleep for max(TIMEOUT, reset-time - now); when the sleep ends at
\* least TIMEOUT has passed and the new reset-time is not ahead any more, the
\* 429 has used up one of the MAX_TRIES attempts, and the next attempt starts
\* (the identity is assigned anew in that same step).
C18_BackoffAfter429 ==
    [][/\ (ResponseArrives /\ lastStatus' = 429)
            => /\ wpc' = "backoff"
               /\ sleep_left' = Max(TIMEOUT, reset_in')
               /\ tries' = tries
               /\ ua' = ua
               /\ resultLog' = resultLog
       /\ BackoffEnds
            => /\ wpc' = "attempt"
               /\ sleep_left >= TIMEOUT
               /\ sleep_left >= reset_in
               /\ reset_in' <= 0
               /\ reset_in' = Max(-1, reset_in - sleep_left)
               /\ tries' = tries + 1
               /\ nreq' = nreq]_vars

\* C18 witness: the third attempt of a call was answered 429 with a reset
\* further ahead than TIMEOUT, and the client sleeps until that reset.
C18_Witness ==
    /\ wpc = "backoff"
    /\ tries = MAX_TRIES - 1
    /\ sleep_left > TIMEOUT

\* the step in which the request of an attempt ends in a transport timeout
TimeoutHappens == wpc = "http" /\ nreq' = nreq + 1 /\ lastStatus' = 0
\* the step in which a 200 answers the attempt that follows a timed-out one
OkAfterTimeout == wpc = "http" /\ nreq >= 1 /\ lastStatus = 0 /\ lastStatus' = 200

\* C19: a transport timeout uses up exactly one attempt and raises nothing:
\* no Result is put, the client does not sleep and goes on to the next
\* iteration, and remaining-budget, reset-time and identity are unchanged; a
\* 200 answering the attempt after a timeout ends the call with what decoding
\* its body gives as the task's Result.
C19_TimeoutUsesOneAttempt ==
    [][/\ TimeoutHappens
            => /\ tries' = tries + 1
               /\ wpc' = "attempt"
               /\ sleep_left' = 0
               /\ requests_remaining' = requests_remaining
               /\ reset_in' = reset_in
               /\ ua' = ua
               /\ resultLog' = resultLog
               /\ result_queue' = result_queue
       /\ OkAfterTimeout
            => /\ wpc' = "task_done"
               /\ Len(resultLog') = Len(resultLog) + 1
               /\ Last(resultLog').task = cur
               /\ Last(resultLog').kind \in {"json", "JSONDecodeError"}]_vars

\* C19 witness: the first request of a call timed out and the second
\* attempt is about to start.
C19_Witness ==
    /\ wpc = "attempt"
    /\ nreq = 1
    /\ tries = 1
    /\ lastStatus = 0

\* the callers that are inside a submission method, a task built
Submitting == {c \in Callers : ccall[c].method # "none"}
\* the step in which put_task inserts caller c's task into the task queue
Inserts(c) == cpc[c] = "put" /\ cpc'[c] = "idle"

RECURSIVE SumOf(_)
SumOf(ws) == IF ws = <<>> THEN 0 ELSE Head(ws) + SumOf(Tail(ws))

\* C16: in every submission method an explicit priority, 0 included, is the
\* priority of the task built, whatever the method, sort and time window,
\* and that task is the one inserted into the task queue; only an omitted
\* priority (None) gives a computed default.
C16_ExplicitPriorityWins ==
    /\ [](\A c \in Submitting :
             ccall[c].priority # <<>> => ctask[c].priority = ccall[c].priority[1])
    /\ [][\A c \in Submitting : Inserts(c) => Last(task_queue') = ctask[c]]_vars

\* C16 witness: user(..., sort=TOP, priority=0) is about to insert its task,
\* whose priority is 0.
C16_Witness ==
    \E c \in Submitting :
        /\ cpc[c] = "put"
        /\ ccall[c].method = "user"
        /\ ccall[c].sort.member = "TOP"
        /\ ccall[c].priority = <<0>>
        /\ ctask[c].priority = 0

\* the weights that contribute to the default priority of a call: the base
\* weight, the where weight of user, the sort weight of the methods that take
\* a sort and, under TOP and CONTROVERSIAL of r and user, the time window's
ContributingWeights(call) ==
    <<call.base>>
    \o (IF call.method = "user" THEN <<call.where.priority>> ELSE <<>>)
    \o (IF call.sort.member # "none" THEN <<call.sort.priority>> ELSE <<>>)
    \o (IF call.sort.member \in {"TOP", "CONTROVERSIAL"} /\ call.t.member # "none"
        THEN <<call.t.priority>> ELSE <<>>)

\* the weights the specification names: base, sort and, under TOP and
\* CONTROVERSIAL, time window
NamedWeights(call) ==
    <<call.base>>
    \o (IF call.sort.member # "none" THEN <<call.sort.priority>> ELSE <<>>)
    \o (IF call.sort.member \in {"TOP", "CONTROVERSIAL"} /\ call.t.member # "none"
        THEN <<call.t.priority>> ELSE <<>>)

\* C17 as stated: the default priority is the sum of base weight, sort weight
\* and, under TOP and CONTROVERSIAL only, time window weight, divided by the
\* number of these weights, which is 2 or 3.
C17_MeanOfTwoOrThree ==
    \A c \in Submitting :
        ccall[c].priority = <<>> =>
            /\ Len(NamedWeights(ccall[c])) \in {2, 3}
            /\ ctask[c].priority * Len(NamedWeights(ccall[c]))
                  = SumOf(NamedWeights(ccall[c]))

\* C17 amended: the default priority is the mean of the weights that
\* contribute, which are between 1 and 4: the base weight alone for get,
\* listing, r_about and user_about; base and sort for comments and
\* api_morechildren; base, sort and (under TOP and CONTROVERSIAL only) time
\* window for r; and the same with the where weight added for user.
C17_MeanOfContributingWeights ==
    \A c \in Submitting :
        ccall[c].priority = <<>> =>
            /\ Len(ContributingWeights(ccall[c])) \in 1..4
            /\ ctask[c].priority * Len(ContributingWeights(ccall[c]))
                  = SumOf(ContributingWeights(ccall[c]))

\* C17 witness: user(..., sort=CONTROVERSIAL) without a priority, with
\* weights that are not all equal, has built its task.
C17_Witness ==
    \E c \in Submitting :
        /\ ccall[c].method = "user"
        /\ ccall[c].priority = <<>>
        /\ ccall[c].sort.member = "CONTROVERSIAL"
        /\ ccall[c].t.priority # ccall[c].base
        /\ ccall[c].where.priority # ccall[c].sort.priority
        /\ cpc[c] = "put"

\* the tags of the tasks put_task has inserted into the task queue
QueuedTags == {task_queue[i].tag : i \in 1..Len(task_queue)}
\* the tags of the tasks that have a Result
ServedTags == {resultLog[i].task.tag : i \in 1..Len(resultLog)}

\* C20: with the worker started and never stopped, every task put_task has
\* inserted is eventually dequeued and eventually has its Result put into
\* the result queue, and every client call the worker makes comes to an end.
C20_EveryTaskServed ==
    /\ \A t \in 1..MaxFetches :
          (wpc # "new" /\ t \in QueuedTags)
             ~> (t \in Range(deqLog) /\ t \in ServedTags)
    /\ Executing ~> ~Executing
====
